---- MODULE Spec2Model ----
(***************************************************************************)
(* casbin-pgx-adapter: the policy table behind one PgxAdapter and the      *)
(* adapter's operations on it.                                             *)
(*                                                                         *)
(* The table is the sequence of its rows in id order (id SERIAL: every     *)
(* insert gets a larger id than all rows before it, an UPDATE keeps the    *)
(* id).  A row is [ptype, v0, ..., v5], each value column a string or Nil   *)
(* (SQL NULL).  The adapter is used by one caller at a time                *)
(* over its single connection: an operation runs to its return, the        *)
(* caller takes the result (Return), then the next operation starts.       *)
(* `call` is the record of the operation that has just returned.           *)
(*                                                                         *)
(* ConcSpec is a second specification: several callers run loads and       *)
(* IsFiltered on one adapter at the same time, statement by statement,     *)
(* around the adapter's mutex `mu`; pc is the statement each caller is at  *)
(* and local its local value (the flag value to write, or the value read). *)
(***************************************************************************)
EXTENDS Integers, Sequences, FiniteSets, TLC

VARIABLES table, isFiltered, call, mu, pc, local

vars == <<table, isFiltered, call, mu, pc, local>>

\* the variables of the concurrent callers
concVars == <<mu, pc, local>>

(***************************************************************************)
(* Bounds of the model and program constants                               *)
(***************************************************************************)
MaxRows == 3

MaxBatch == 2

MaxCallers == 3

Callers == 1..MaxCallers

NumCols == 6

Nil == "<nil>"

Ptypes == {"p", "g"}

\* The rules callers pass: permission rules under "p", a rule with all six
\* fields under "g".
\* R3 maps to the same row as R1 (a trailing empty string), R2 has an empty
\* string that is not in the last position.
R1 == <<"alice", "data1">>

R2 == <<"alice", "", "data1">>

R3 == <<"alice", "data1", "">>

R4 == <<"bob", "data1">>

G1 == <<"alice", "admin", "dom1", "dom2", "dom3", "data1">>

\* a strict prefix of R1, passed to RemovePolicy only
R0 == <<"alice">>

RulesOf(ptype) == IF ptype = "p" THEN {R1, R2, R3, R4} ELSE {G1}

\* the old and the new rules of the batch updates, and the rules of a saved model
OldRulesOf(ptype) == IF ptype = "p" THEN {R2, R3, R4} ELSE {G1}

NewRulesOf(ptype) == IF ptype = "p" THEN {R3, R4} ELSE {G1}

RemoveRulesOf(ptype) == IF ptype = "p" THEN RulesOf(ptype) \cup {R0} ELSE RulesOf(ptype)

SeqsUpTo(S, n) == UNION {[1..k -> S] : k \in 0..n}

BatchesOf(ptype) == SeqsUpTo(RulesOf(ptype), MaxBatch)

OldBatchesOf(ptype) == SeqsUpTo(OldRulesOf(ptype), MaxBatch)

NewBatchesOf(ptype) == SeqsUpTo(NewRulesOf(ptype), MaxBatch)

\* fieldIndex and fieldValues of the filtered remove and update
FieldFilters ==
    {<<-1, <<"alice">>>>, <<6, <<"alice">>>>, <<0, <<>>>>, <<0, <<"alice">>>>,
     <<0, <<"bob">>>>, <<0, <<"alice", "data1">>>>, <<0, <<"", "data1">>>>,
     <<0, <<"alice", "">>>>, <<1, <<"data1">>>>, <<1, <<"">>>>,
     <<2, <<"data1">>>>, <<5, <<"data1", "alice">>>>}

\* the filter argument of LoadFilteredPolicy
FilterKinds == {"nil", "Filter", "other"}

Filters ==
    [Ptype : {<<>>, <<"p">>, <<"p", "g">>},
     V0 : {<<>>, <<"alice">>, <<"alice", "bob">>, <<"">>},
     V1 : {<<>>, <<"data1">>},
     V2 : {<<>>, <<"data1">>},
     V3 : {<<>>},
     V4 : {<<>>},
     V5 : {<<>>, <<"data1">>}]

(***************************************************************************)
(* Columns and the rule codec                                              *)
(***************************************************************************)
\* CREATE TABLE ... (id SERIAL PRIMARY KEY, ptype, v0, v1, v2, v3, v4, v5)
Columns == {"ptype", "v0", "v1", "v2", "v3", "v4", "v5"}

\* colParams[i] is the column of rule field i (colParams[i+1] here)
colParams == <<"v0", "v1", "v2", "v3", "v4", "v5">>

insertColumns == <<"ptype", "v0", "v1", "v2", "v3", "v4", "v5">>

selectColumns == <<"ptype", "v0", "v1", "v2", "v3", "v4", "v5">>

Pos(seq, x) == CHOOSE k \in 1..Len(seq) : seq[k] = x

Range(s) == {s[i] : i \in 1..Len(s)}

\* vals[0] = ptype; vals[i+1] = rule[i] if i < len(rule) && rule[i] != "",
\* else nil
Vals(ptype, rule) ==
    <<ptype>> \o
    [i \in 1..NumCols |-> IF i <= Len(rule) /\ rule[i] # "" THEN rule[i] ELSE Nil]

\* the row of Insert(...).Columns(insertColumns...).Values(vals...)
ToRow(ptype, rule) ==
    [c \in Columns |-> Vals(ptype, rule)[Pos(insertColumns, c)]]

RECURSIVE ToRows(_, _)
ToRows(ptype, rules) ==
    IF rules = <<>> THEN <<>>
    ELSE <<ToRow(ptype, Head(rules))>> \o ToRows(ptype, Tail(rules))

\* rows.Scan(&ptype, &v0, ..., &v5) of Select(selectColumns...)
Scan(row) == [k \in 1..Len(selectColumns) |-> row[selectColumns[k]]]

\* the scanned values from position i on that are Valid, in order
RECURSIVE ValidVals(_, _)
ValidVals(s, i) ==
    IF i > Len(s) THEN <<>>
    ELSE (IF s[i] # Nil THEN <<s[i]>> ELSE <<>>) \o ValidVals(s, i + 1)

\* policyLine := []string{ptype} followed by the present values
PolicyLine(row) == <<Scan(row)[1]>> \o ValidVals(Scan(row), 2)

\* policy := []string{} followed by the present values (no ptype)
Policy(row) == ValidVals(Scan(row), 2)

\* strings.Join(policyLine, ", "): the elements with the separator between
\* them (the text of the line, as the sequence of its pieces)
Sep == ", "

RECURSIVE Join(_)
Join(elems) ==
    IF Len(elems) = 0 THEN <<>>
    ELSE IF Len(elems) = 1 THEN <<elems[1]>>
    ELSE <<elems[1], Sep>> \o Join(Tail(elems))

\* the fields of a line of text: the pieces between the separators (the
\* values of the model hold no comma, quote or leading space)
RECURSIVE Fields(_)
Fields(line) ==
    IF Sep \notin Range(line) THEN <<line[1]>>
    ELSE <<line[1]>> \o Fields(SubSeq(line, 3, Len(line)))

\* persist.LoadPolicyLine(strings.Join(policyLine, ", "), model): the tokens
\* handed to the model; the first is the key, the rest is the rule
LoadPolicyLine(policyLine) ==
    IF Join(policyLine) = <<>> THEN <<>> ELSE Fields(Join(policyLine))

\* the rows as LoadPolicyCtx feeds them to the model
LoadedLines(rows) == [i \in 1..Len(rows) |-> LoadPolicyLine(PolicyLine(rows[i]))]

\* as PolicyLines, but the rows are fed last row first
PolicyLinesLastFirst(rows) ==
    [i \in 1..Len(rows) |-> PolicyLine(rows[Len(rows) + 1 - i])]

\* for rows.Next() { ...; line := ...; LoadPolicyArray(line, model) }
PolicyLines(rows) == [i \in 1..Len(rows) |-> PolicyLine(rows[i])]

\* for rows.Next() { ...; oldPolicies = append(oldPolicies, policy) }
Policies(rows) == [i \in 1..Len(rows) |-> Policy(rows[i])]

(***************************************************************************)
(* The table: unique index, statements, transactions                       *)
(***************************************************************************)
Coalesce(x) == IF x = Nil THEN "" ELSE x

\* CREATE UNIQUE INDEX ... (ptype, COALESCE(v0,''), ..., COALESCE(v5,''))
IndexKey(row) ==
    <<row.ptype, Coalesce(row.v0), Coalesce(row.v1), Coalesce(row.v2),
      Coalesce(row.v3), Coalesce(row.v4), Coalesce(row.v5)>>

UniqueNotEnforced(rows) == TRUE

\* no two rows have the same index key
Unique(rows) ==
    \A i, j \in 1..Len(rows) : i # j => IndexKey(rows[i]) # IndexKey(rows[j])

\* col = $n is true only of a non-NULL column holding that value
SqlEq(col, val) == col # Nil /\ col = val

\* col IN ($n, ...) is true only of a non-NULL column holding one of the values
SqlIn(col, vals) == col # Nil /\ \E i \in 1..Len(vals) : vals[i] = col

InsertRowByRow(tbl, rows) ==
    LET fresh == SelectSeq(rows, LAMBDA r : Unique(tbl \o <<r>>))
    IN IF Unique(tbl \o rows)
       THEN [ok |-> TRUE, table |-> tbl \o rows, affected |-> Len(rows)]
       ELSE [ok |-> FALSE,
             table |-> IF Unique(tbl \o fresh) THEN tbl \o fresh ELSE tbl,
             affected |-> 0]

\* One INSERT statement with all `rows`: a duplicate key on any row fails
\* the statement as a whole.
Insert(tbl, rows) ==
    IF Unique(tbl \o rows)
    THEN [ok |-> TRUE, table |-> tbl \o rows, affected |-> Len(rows)]
    ELSE [ok |-> FALSE, table |-> tbl, affected |-> 0]

\* One DELETE statement; `where` is the set of rows its WHERE clause selects.
Delete(tbl, where) ==
    LET kept == SelectSeq(tbl, LAMBDA r : r \notin where)
    IN [ok |-> TRUE, table |-> kept, affected |-> Len(tbl) - Len(kept)]

\* as SetMap, but an empty field is stored as the empty string
SetMapStoresEmpty(newRule) ==
    [c \in Range(colParams) |->
        LET i == Pos(colParams, c)
        IN IF i <= Len(newRule) THEN newRule[i] ELSE Nil]

\* setMap[colParams[i]] = newRule[i] if i < len(newRule) && newRule[i] != "",
\* else nil
SetMap(newRule) ==
    [c \in Range(colParams) |->
        LET i == Pos(colParams, c)
        IN IF i <= Len(newRule) /\ newRule[i] # "" THEN newRule[i] ELSE Nil]

\* as Update, but the unique index is not looked at
UpdateNoUniqueCheck(tbl, where, setMap) ==
    LET Set(row) == [c \in Columns |-> IF c \in DOMAIN setMap THEN setMap[c] ELSE row[c]]
        upd == [i \in 1..Len(tbl) |-> IF tbl[i] \in where THEN Set(tbl[i]) ELSE tbl[i]]
        n == Cardinality({i \in 1..Len(tbl) : tbl[i] \in where})
    IN [ok |-> TRUE, table |-> upd, affected |-> n]

\* as Update, but an updated row is deleted and inserted again
UpdateMovesRow(tbl, where, setMap) ==
    LET Set(row) == [c \in Columns |-> IF c \in DOMAIN setMap THEN setMap[c] ELSE row[c]]
        kept == SelectSeq(tbl, LAMBDA r : r \notin where)
        hit == SelectSeq(tbl, LAMBDA r : r \in where)
        upd == kept \o [i \in 1..Len(hit) |-> Set(hit[i])]
    IN IF Unique(upd)
       THEN [ok |-> TRUE, table |-> upd, affected |-> Len(hit)]
       ELSE [ok |-> FALSE, table |-> tbl, affected |-> 0]

\* One UPDATE ... SET statement: the id of an updated row is kept.
Update(tbl, where, setMap) ==
    LET Set(row) == [c \in Columns |-> IF c \in DOMAIN setMap THEN setMap[c] ELSE row[c]]
        upd == [i \in 1..Len(tbl) |-> IF tbl[i] \in where THEN Set(tbl[i]) ELSE tbl[i]]
        n == Cardinality({i \in 1..Len(tbl) : tbl[i] \in where})
    IN IF Unique(upd)
       THEN [ok |-> TRUE, table |-> upd, affected |-> n]
       ELSE [ok |-> FALSE, table |-> tbl, affected |-> 0]

RollbackKeepsWork(pre, work) == work

\* defer tx.Rollback(ctx): the table is as it was at Begin
Rollback(pre, work) == pre

\* tx.Commit(ctx): the transaction's work becomes the table
Commit(pre, work) == work

(***************************************************************************)
(* Predicates                                                              *)
(***************************************************************************)
\* as ExactMatch, but only the fields the rule supplies are compared
ExactMatchSuppliedOnly(row, ptype, rule) ==
    /\ SqlEq(row.ptype, ptype)
    /\ \A i \in 0..(NumCols - 1) :
          (i < Len(rule) /\ rule[i + 1] # "")
             => SqlEq(row[colParams[i + 1]], rule[i + 1])

\* WHERE ptype = $1 AND for each i in range 6: colParams[i] = rule[i], or
\* colParams[i] IS NULL when the field is missing or empty
ExactMatch(row, ptype, rule) ==
    /\ SqlEq(row.ptype, ptype)
    /\ \A i \in 0..(NumCols - 1) :
          IF i < Len(rule) /\ rule[i + 1] # ""
          THEN SqlEq(row[colParams[i + 1]], rule[i + 1])
          ELSE row[colParams[i + 1]] = Nil

(***************************************************************************)
(* Call records                                                            *)
(***************************************************************************)
NoFilter == [Ptype |-> <<>>, V0 |-> <<>>, V1 |-> <<>>, V2 |-> <<>>,
             V3 |-> <<>>, V4 |-> <<>>, V5 |-> <<>>]

NoCall == [op |-> "none", ptype |-> "", rules |-> <<>>, newRules |-> <<>>,
           fieldIndex |-> 0, fieldValues |-> <<>>, filterKind |-> "nil",
           filter |-> NoFilter, fault |-> 0, pre |-> <<>>, err |-> "nil",
           ret |-> <<>>, tx |-> "none", flag |-> FALSE, wasFiltered |-> FALSE]

Result(tbl, err, ret, tx) == [table |-> tbl, err |-> err, ret |-> ret, tx |-> tx]

(***************************************************************************)
(* AddPolicyCtx, AddPoliciesCtx                                            *)
(***************************************************************************)
\* as AddPolicyCtx, but a duplicate is accepted silently
AddPolicyIgnoresDuplicate(tbl, ptype, rule, fault) ==
    LET r == Insert(tbl, <<ToRow(ptype, rule)>>)
    IN IF fault = 1 THEN Result(tbl, "failed to add policy", <<>>, "none")
       ELSE Result(r.table, "nil", <<>>, "none")

\* fault = 1: a.conn.Exec fails for a reason other than a duplicate key
AddPolicyCtx(tbl, ptype, rule, fault) ==
    LET r == Insert(tbl, <<ToRow(ptype, rule)>>)
    IN IF fault = 1 THEN Result(tbl, "failed to add policy", <<>>, "none")
       ELSE IF ~r.ok THEN Result(tbl, "policy already exists", <<>>, "none")
       ELSE IF r.affected = 0 THEN Result(r.table, "no rows affected", <<>>, "none")
       ELSE Result(r.table, "nil", <<>>, "none")

AddPoliciesCtx(tbl, ptype, rules, fault) ==
    LET r == Insert(tbl, ToRows(ptype, rules))
    IN IF Len(rules) = 0 THEN Result(tbl, "nil", <<>>, "none")
       ELSE IF fault = 1 THEN Result(tbl, "failed to add policies", <<>>, "none")
       ELSE IF ~r.ok
            THEN Result(r.table, "one or more policies already exist", <<>>, "none")
       ELSE IF r.affected = 0 THEN Result(r.table, "no rows affected", <<>>, "none")
       ELSE Result(r.table, "nil", <<>>, "none")

(***************************************************************************)
(* RemovePolicyCtx, RemovePoliciesCtx, RemoveFilteredPolicyCtx             *)
(***************************************************************************)
RemovePolicyCtx(tbl, ptype, rule, fault) ==
    LET r == Delete(tbl, {row \in Range(tbl) : ExactMatch(row, ptype, rule)})
    IN IF fault = 1 THEN Result(tbl, "failed to remove policy", <<>>, "none")
       ELSE IF r.affected = 0 THEN Result(r.table, "policy not found", <<>>, "none")
       ELSE Result(r.table, "nil", <<>>, "none")

\* for _, rule := range rules { tx.Exec(delete); totalRowsAffected += ... }
\* Backend call k+1 is the delete of rules[k] (call 1 is Begin).
RECURSIVE RemoveLoop(_, _, _, _, _, _)
RemoveLoop(work, ptype, rules, k, total, fault) ==
    IF k > Len(rules) THEN [err |-> "nil", table |-> work, total |-> total]
    ELSE IF fault = k + 1
         THEN [err |-> "failed to remove policy", table |-> work, total |-> total]
    ELSE LET d == Delete(work, {row \in Range(work) : ExactMatch(row, ptype, rules[k])})
         IN RemoveLoop(d.table, ptype, rules, k + 1, total + d.affected, fault)

\* as RemovePoliciesCtx, but a rule that removes nothing fails the batch
RemovePoliciesAllOrNothing(tbl, ptype, rules, fault) ==
    LET l == RemoveLoop(tbl, ptype, rules, 1, 0, fault)
        Missing(k) == Delete(tbl, {row \in Range(tbl) : ExactMatch(row, ptype, rules[k])}).affected = 0
    IN IF Len(rules) = 0 THEN Result(tbl, "nil", <<>>, "none")
       ELSE IF fault = 1
            THEN Result(tbl, "failed to begin transaction", <<>>, "none")
       ELSE IF l.err # "nil"
            THEN Result(Rollback(tbl, l.table), l.err, <<>>, "rolledback")
       ELSE IF \E k \in 1..Len(rules) : Missing(k)
            THEN Result(Rollback(tbl, l.table), "no policies found", <<>>,
                        "rolledback")
       ELSE IF fault = Len(rules) + 2
            THEN Result(Rollback(tbl, l.table), "failed to commit transaction",
                        <<>>, "rolledback")
       ELSE Result(Commit(tbl, l.table), "nil", <<>>, "committed")

\* as RemovePoliciesCtx, without the check of totalRowsAffected
RemovePoliciesCommitsNothing(tbl, ptype, rules, fault) ==
    LET l == RemoveLoop(tbl, ptype, rules, 1, 0, fault)
    IN IF Len(rules) = 0 THEN Result(tbl, "nil", <<>>, "none")
       ELSE IF fault = 1
            THEN Result(tbl, "failed to begin transaction", <<>>, "none")
       ELSE IF l.err # "nil"
            THEN Result(Rollback(tbl, l.table), l.err, <<>>, "rolledback")
       ELSE IF fault = Len(rules) + 2
            THEN Result(Rollback(tbl, l.table), "failed to commit transaction",
                        <<>>, "rolledback")
       ELSE Result(Commit(tbl, l.table), "nil", <<>>, "committed")

\* as RemovePoliciesCtx, without the deferred tx.Rollback: an error return
\* leaves the transaction open
RemovePoliciesNoDeferredRollback(tbl, ptype, rules, fault) ==
    LET l == RemoveLoop(tbl, ptype, rules, 1, 0, fault)
    IN IF Len(rules) = 0 THEN Result(tbl, "nil", <<>>, "none")
       ELSE IF fault = 1
            THEN Result(tbl, "failed to begin transaction", <<>>, "none")
       ELSE IF l.err # "nil" THEN Result(tbl, l.err, <<>>, "open")
       ELSE IF l.total = 0 THEN Result(tbl, "no policies found", <<>>, "open")
       ELSE IF fault = Len(rules) + 2
            THEN Result(tbl, "failed to commit transaction", <<>>, "open")
       ELSE Result(Commit(tbl, l.table), "nil", <<>>, "committed")

\* as RemovePoliciesCtx, without the early return for an empty list
RemovePoliciesNoEmptyReturn(tbl, ptype, rules, fault) ==
    LET l == RemoveLoop(tbl, ptype, rules, 1, 0, fault)
    IN IF fault = 1
       THEN Result(tbl, "failed to begin transaction", <<>>, "none")
       ELSE IF l.err # "nil"
            THEN Result(Rollback(tbl, l.table), l.err, <<>>, "rolledback")
       ELSE IF l.total = 0
            THEN Result(Rollback(tbl, l.table), "no policies found", <<>>,
                        "rolledback")
       ELSE IF fault = Len(rules) + 2
            THEN Result(Rollback(tbl, l.table), "failed to commit transaction",
                        <<>>, "rolledback")
       ELSE Result(Commit(tbl, l.table), "nil", <<>>, "committed")

RemovePoliciesCtx(tbl, ptype, rules, fault) ==
    LET l == RemoveLoop(tbl, ptype, rules, 1, 0, fault)
    IN IF Len(rules) = 0 THEN Result(tbl, "nil", <<>>, "none")
       ELSE IF fault = 1
            THEN Result(tbl, "failed to begin transaction", <<>>, "none")
       ELSE IF l.err # "nil"
            THEN Result(Rollback(tbl, l.table), l.err, <<>>, "rolledback")
       ELSE IF l.total = 0
            THEN Result(Rollback(tbl, l.table), "no policies found", <<>>,
                        "rolledback")
       ELSE IF fault = Len(rules) + 2
            THEN Result(Rollback(tbl, l.table), "failed to commit transaction",
                        <<>>, "rolledback")
       ELSE Result(Commit(tbl, l.table), "nil", <<>>, "committed")

\* as RemoveFilteredWhere, without the condition on ptype
RemoveFilteredWhereAnyPtype(row, ptype, fieldIndex, fieldValues) ==
    \A i \in 0..(Len(fieldValues) - 1) :
       (i + fieldIndex <= 5 /\ fieldValues[i + 1] # "")
          => SqlEq(row[colParams[i + fieldIndex + 1]], fieldValues[i + 1])

\* as RemoveFilteredWhere, but an empty value constrains its column too
RemoveFilteredWhereAllValues(row, ptype, fieldIndex, fieldValues) ==
    /\ SqlEq(row.ptype, ptype)
    /\ \A i \in 0..(Len(fieldValues) - 1) :
          (i + fieldIndex <= 5)
             => SqlEq(row[colParams[i + fieldIndex + 1]], fieldValues[i + 1])

\* WHERE ptype = $1 AND, for i := range fieldValues while i+fieldIndex <= 5,
\* colParams[i+fieldIndex] = fieldValues[i] unless fieldValues[i] is ""
RemoveFilteredWhere(row, ptype, fieldIndex, fieldValues) ==
    /\ SqlEq(row.ptype, ptype)
    /\ \A i \in 0..(Len(fieldValues) - 1) :
          (i + fieldIndex <= 5 /\ fieldValues[i + 1] # "")
             => SqlEq(row[colParams[i + fieldIndex + 1]], fieldValues[i + 1])

\* as RemoveFilteredPolicyCtx, but a fieldIndex above 5 is not refused
RemoveFilteredIndexAboveAccepted(tbl, ptype, fieldIndex, fieldValues, fault) ==
    LET r == Delete(tbl, {row \in Range(tbl) :
                            RemoveFilteredWhere(row, ptype, fieldIndex, fieldValues)})
    IN IF fieldIndex < 0
       THEN Result(tbl, "invalid field index", <<>>, "none")
       ELSE IF fault = 1
            THEN Result(tbl, "failed to remove filtered policies", <<>>, "none")
       ELSE IF r.affected = 0
            THEN Result(r.table, "no matching policies found", <<>>, "none")
       ELSE Result(r.table, "nil", <<>>, "none")

RemoveFilteredPolicyCtx(tbl, ptype, fieldIndex, fieldValues, fault) ==
    LET r == Delete(tbl, {row \in Range(tbl) :
                            RemoveFilteredWhere(row, ptype, fieldIndex, fieldValues)})
    IN IF fieldIndex < 0 \/ fieldIndex > 5
       THEN Result(tbl, "invalid field index", <<>>, "none")
       ELSE IF fault = 1
            THEN Result(tbl, "failed to remove filtered policies", <<>>, "none")
       ELSE IF r.affected = 0
            THEN Result(r.table, "no matching policies found", <<>>, "none")
       ELSE Result(r.table, "nil", <<>>, "none")

(***************************************************************************)
(* UpdatePolicyCtx, UpdatePoliciesCtx, UpdateFilteredPoliciesCtx           *)
(***************************************************************************)
UpdatePolicyCtx(tbl, ptype, oldRule, newRule, fault) ==
    LET r == Update(tbl, {row \in Range(tbl) : ExactMatch(row, ptype, oldRule)}, SetMap(newRule))
    IN IF fault = 1 \/ ~r.ok THEN Result(tbl, "failed to update policy", <<>>, "none")
       ELSE IF r.affected = 0 THEN Result(r.table, "policy not found", <<>>, "none")
       ELSE Result(r.table, "nil", <<>>, "none")

\* as UpdateLoop, but the pairs are applied last pair first
RECURSIVE UpdateLoopLastPairFirst(_, _, _, _, _, _)
UpdateLoopLastPairFirst(work, ptype, oldRules, newRules, k, fault) ==
    IF k > Len(oldRules) THEN [err |-> "nil", table |-> work]
    ELSE LET j == Len(oldRules) + 1 - k
             u == Update(work, {row \in Range(work) : ExactMatch(row, ptype, oldRules[j])},
                         SetMap(newRules[j]))
         IN IF fault = k + 1 \/ ~u.ok
            THEN [err |-> "failed to update policy", table |-> work]
            ELSE IF u.affected = 0
                 THEN [err |-> "policy not found at index", table |-> u.table]
            ELSE UpdateLoopLastPairFirst(u.table, ptype, oldRules, newRules,
                                         k + 1, fault)

\* as UpdateLoop, but the error of tx.Exec is not looked at
RECURSIVE UpdateLoopIgnoresExecError(_, _, _, _, _, _)
UpdateLoopIgnoresExecError(work, ptype, oldRules, newRules, k, fault) ==
    IF k > Len(oldRules) THEN [err |-> "nil", table |-> work]
    ELSE LET u == Update(work, {row \in Range(work) : ExactMatch(row, ptype, oldRules[k])},
                         SetMap(newRules[k]))
         IN IF u.ok /\ u.affected = 0 /\ fault # k + 1
            THEN [err |-> "policy not found at index", table |-> u.table]
            ELSE UpdateLoopIgnoresExecError(u.table, ptype, oldRules, newRules,
                                            k + 1, fault)

\* for i := range oldRules { tx.Exec(update); if RowsAffected() == 0 {...} }
\* Backend call k+1 is the update of pair k (call 1 is Begin).
RECURSIVE UpdateLoop(_, _, _, _, _, _)
UpdateLoop(work, ptype, oldRules, newRules, k, fault) ==
    IF k > Len(oldRules) THEN [err |-> "nil", table |-> work]
    ELSE LET u == Update(work, {row \in Range(work) : ExactMatch(row, ptype, oldRules[k])},
                         SetMap(newRules[k]))
         IN IF fault = k + 1 \/ ~u.ok
            THEN [err |-> "failed to update policy", table |-> work]
            ELSE IF u.affected = 0
                 THEN [err |-> "policy not found at index", table |-> u.table]
            ELSE UpdateLoop(u.table, ptype, oldRules, newRules, k + 1, fault)

\* as UpdatePoliciesCtx, but lists of different lengths are paired up to the
\* shorter one
UpdatePoliciesPairsToShorter(tbl, ptype, oldRules, newRules, fault) ==
    LET n == IF Len(oldRules) < Len(newRules) THEN Len(oldRules) ELSE Len(newRules)
        l == UpdateLoop(tbl, ptype, SubSeq(oldRules, 1, n), SubSeq(newRules, 1, n),
                        1, fault)
    IN IF n = 0 THEN Result(tbl, "nil", <<>>, "none")
       ELSE IF fault = 1
            THEN Result(tbl, "failed to begin transaction", <<>>, "none")
       ELSE IF l.err # "nil"
            THEN Result(Rollback(tbl, l.table), l.err, <<>>, "rolledback")
       ELSE IF fault = n + 2
            THEN Result(Rollback(tbl, l.table), "failed to commit transaction",
                        <<>>, "rolledback")
       ELSE Result(Commit(tbl, l.table), "nil", <<>>, "committed")

UpdatePoliciesCtx(tbl, ptype, oldRules, newRules, fault) ==
    IF Len(oldRules) # Len(newRules)
    THEN Result(tbl, "old rules and new rules must have the same length", <<>>,
                "none")
    ELSE IF Len(oldRules) = 0 THEN Result(tbl, "nil", <<>>, "none")
    ELSE IF fault = 1 THEN Result(tbl, "failed to begin transaction", <<>>, "none")
    ELSE LET l == UpdateLoop(tbl, ptype, oldRules, newRules, 1, fault)
         IN IF l.err # "nil"
            THEN Result(Rollback(tbl, l.table), l.err, <<>>, "rolledback")
            ELSE IF fault = Len(oldRules) + 2
                 THEN Result(Rollback(tbl, l.table), "failed to commit transaction",
                             <<>>, "rolledback")
            ELSE Result(Commit(tbl, l.table), "nil", <<>>, "committed")

\* as UpdateFilteredWhere, but values that run past column v5 match no row
UpdateFilteredWhereNoClipping(row, ptype, fieldIndex, fieldValues) ==
    /\ SqlEq(row.ptype, ptype)
    /\ fieldIndex + Len(fieldValues) <= 6
    /\ \A i \in 0..(Len(fieldValues) - 1) :
          SqlEq(row[colParams[i + fieldIndex + 1]], fieldValues[i + 1])

\* as UpdateFilteredWhere, but an empty value constrains nothing
UpdateFilteredWhereSkipsEmpty(row, ptype, fieldIndex, fieldValues) ==
    RemoveFilteredWhere(row, ptype, fieldIndex, fieldValues)

\* WHERE ptype = $1 AND, for i := range fieldValues while i+fieldIndex <= 5,
\* colParams[i+fieldIndex] = fieldValues[i]
UpdateFilteredWhere(row, ptype, fieldIndex, fieldValues) ==
    /\ SqlEq(row.ptype, ptype)
    /\ \A i \in 0..(Len(fieldValues) - 1) :
          (i + fieldIndex <= 5)
             => SqlEq(row[colParams[i + fieldIndex + 1]], fieldValues[i + 1])

\* The SELECT has no ORDER BY: its rows come in an order the backend picks,
\* `order` (a permutation of the table's positions).
SelectAnyOrder(tbl, where, order) ==
    SelectSeq([i \in 1..Len(tbl) |-> tbl[order[i]]], LAMBDA r : r \in where)

\* as UpdateFilteredPoliciesCtx, but a delete that affects no row is an error
UpdateFilteredFailsOnNoMatch(tbl, ptype, newRules, fieldIndex, fieldValues, fault, order) ==
    LET where == {row \in Range(tbl) :
                     UpdateFilteredWhere(row, ptype, fieldIndex, fieldValues)}
        oldPolicies == Policies(SelectAnyOrder(tbl, where, order))
        d == Delete(tbl, where)
        ins == IF Len(newRules) > 0 THEN Insert(d.table, ToRows(ptype, newRules))
               ELSE [ok |-> TRUE, table |-> d.table, affected |-> 0]
    IN IF fieldIndex < 0 \/ fieldIndex > 5
       THEN Result(tbl, "invalid field index", <<>>, "none")
       ELSE IF fault = 1
            THEN Result(tbl, "failed to begin transaction", <<>>, "none")
       ELSE IF fault \in {2, 3, 4}
            THEN Result(Rollback(tbl, tbl), "failed to query policies", <<>>,
                        "rolledback")
       ELSE IF d.affected = 0
            THEN Result(Rollback(tbl, tbl), "no matching policies found", <<>>,
                        "rolledback")
       ELSE IF Len(newRules) > 0 /\ (fault = 5 \/ ~ins.ok)
            THEN Result(Rollback(tbl, d.table), "failed to insert new policies",
                        <<>>, "rolledback")
       ELSE IF fault = 6
            THEN Result(Rollback(tbl, ins.table), "failed to commit transaction",
                        <<>>, "rolledback")
       ELSE Result(Commit(tbl, ins.table), "nil", oldPolicies, "committed")

\* Backend calls: 1 Begin, 2 Query, 3 the row scan, 4 the delete, 5 the insert
\* (only when newRules is not empty), 6 Commit.
UpdateFilteredPoliciesCtx(tbl, ptype, newRules, fieldIndex, fieldValues, fault, order) ==
    LET where == {row \in Range(tbl) :
                     UpdateFilteredWhere(row, ptype, fieldIndex, fieldValues)}
        oldPolicies == Policies(SelectAnyOrder(tbl, where, order))
        d == Delete(tbl, where)
        ins == IF Len(newRules) > 0 THEN Insert(d.table, ToRows(ptype, newRules))
               ELSE [ok |-> TRUE, table |-> d.table, affected |-> 0]
    IN IF fieldIndex < 0 \/ fieldIndex > 5
       THEN Result(tbl, "invalid field index", <<>>, "none")
       ELSE IF fault = 1
            THEN Result(tbl, "failed to begin transaction", <<>>, "none")
       ELSE IF fault = 2
            THEN Result(Rollback(tbl, tbl), "failed to query policies", <<>>,
                        "rolledback")
       ELSE IF fault = 3
            THEN Result(Rollback(tbl, tbl), "error iterating rows", <<>>,
                        "rolledback")
       ELSE IF fault = 4
            THEN Result(Rollback(tbl, tbl), "failed to delete policies", <<>>,
                        "rolledback")
       ELSE IF Len(newRules) > 0 /\ (fault = 5 \/ ~ins.ok)
            THEN Result(Rollback(tbl, d.table), "failed to insert new policies",
                        <<>>, "rolledback")
       ELSE IF fault = 6
            THEN Result(Rollback(tbl, ins.table), "failed to commit transaction",
                        <<>>, "rolledback")
       ELSE Result(Commit(tbl, ins.table), "nil", oldPolicies, "committed")

(***************************************************************************)
(* SavePolicyCtx                                                           *)
(***************************************************************************)
TruncateKeepsRows(tbl) == tbl

\* TRUNCATE TABLE inside the transaction
Truncate(tbl) == <<>>

\* pRules is model["p"]["p"].Policy and gRules is model["g"]["g"].Policy.
\* Backend calls: 1 Begin, 2 the truncate, 3 the insert (only when there are
\* lines), 4 Commit.
SavePolicyCtx(tbl, pRules, gRules, fault) ==
    LET lines == ToRows("p", pRules) \o ToRows("g", gRules)
        ins == IF Len(lines) > 0 THEN Insert(Truncate(tbl), lines)
               ELSE [ok |-> TRUE, table |-> Truncate(tbl), affected |-> 0]
    IN IF fault = 1 THEN Result(tbl, "failed to begin transaction", <<>>, "none")
       ELSE IF fault = 2
            THEN Result(Rollback(tbl, tbl), "failed to clear policies", <<>>,
                        "rolledback")
       ELSE IF Len(lines) > 0 /\ (fault = 3 \/ ~ins.ok)
            THEN Result(Rollback(tbl, Truncate(tbl)), "failed to insert policies",
                        <<>>, "rolledback")
       ELSE IF fault = 4
            THEN Result(Rollback(tbl, ins.table), "failed to commit transaction",
                        <<>>, "rolledback")
       ELSE Result(Commit(tbl, ins.table), "nil", <<>>, "committed")

(***************************************************************************)
(* LoadPolicyCtx, LoadFilteredPolicyCtx, IsFilteredCtx                     *)
(***************************************************************************)
\* Backend calls: 1 Query, 2 the row scan.  ret is the policyLine of every
\* row, in id order (OrderBy("id")).  isFiltered is not touched.
LoadPolicyCtx(tbl, flag, fault) ==
    IF fault = 1 THEN [err |-> "failed to query policies", ret |-> <<>>, flag |-> flag]
    ELSE IF fault = 2 THEN [err |-> "error iterating rows", ret |-> <<>>, flag |-> flag]
    ELSE [err |-> "nil", ret |-> LoadedLines(tbl), flag |-> flag]

SqlEqFirst(col, vals) == SqlEq(col, vals[1])

\* as FilterWhere, but each column is compared with its first candidate only
FilterWhereFirstCandidate(row, f) ==
    /\ Len(f.Ptype) > 0 => SqlEqFirst(row.ptype, f.Ptype)
    /\ Len(f.V0) > 0 => SqlEqFirst(row.v0, f.V0)
    /\ Len(f.V1) > 0 => SqlEqFirst(row.v1, f.V1)
    /\ Len(f.V2) > 0 => SqlEqFirst(row.v2, f.V2)
    /\ Len(f.V3) > 0 => SqlEqFirst(row.v3, f.V3)
    /\ Len(f.V4) > 0 => SqlEqFirst(row.v4, f.V4)
    /\ Len(f.V5) > 0 => SqlEqFirst(row.v5, f.V5)

\* query.Where(sq.Eq{col: filterValue.X}) for each X with len(X) > 0
FilterWhere(row, f) ==
    /\ Len(f.Ptype) > 0 => SqlIn(row.ptype, f.Ptype)
    /\ Len(f.V0) > 0 => SqlIn(row.v0, f.V0)
    /\ Len(f.V1) > 0 => SqlIn(row.v1, f.V1)
    /\ Len(f.V2) > 0 => SqlIn(row.v2, f.V2)
    /\ Len(f.V3) > 0 => SqlIn(row.v3, f.V3)
    /\ Len(f.V4) > 0 => SqlIn(row.v4, f.V4)
    /\ Len(f.V5) > 0 => SqlIn(row.v5, f.V5)

\* as LoadFilteredPolicyCtx, but the flag is set before the type of the
\* filter is checked
LoadFilteredSetsFlagFirst(tbl, flag, filterKind, f, fault) ==
    IF filterKind = "nil" THEN LoadPolicyCtx(tbl, FALSE, fault)
    ELSE IF filterKind # "Filter"
         THEN [err |-> "invalid filter type", ret |-> <<>>, flag |-> TRUE]
    ELSE IF fault = 1
         THEN [err |-> "failed to query policies", ret |-> <<>>, flag |-> TRUE]
    ELSE IF fault = 2
         THEN [err |-> "error iterating rows", ret |-> <<>>, flag |-> TRUE]
    ELSE [err |-> "nil",
          ret |-> PolicyLines(SelectSeq(tbl, LAMBDA row : FilterWhere(row, f))),
          flag |-> TRUE]

\* filterKind: "nil" (filter == nil), "Filter" (a Filter value), "other" (a
\* non-nil value of another type).  flag is a.isFiltered before the call.
LoadFilteredPolicyCtx(tbl, flag, filterKind, f, fault) ==
    IF filterKind = "nil" THEN LoadPolicyCtx(tbl, FALSE, fault)
    ELSE IF filterKind # "Filter"
         THEN [err |-> "invalid filter type", ret |-> <<>>, flag |-> flag]
    ELSE IF fault = 1
         THEN [err |-> "failed to query policies", ret |-> <<>>, flag |-> TRUE]
    ELSE IF fault = 2
         THEN [err |-> "error iterating rows", ret |-> <<>>, flag |-> TRUE]
    ELSE [err |-> "nil",
          ret |-> PolicyLines(SelectSeq(tbl, LAMBDA row : FilterWhere(row, f))),
          flag |-> TRUE]

IsFilteredCtx(flag) == flag

(***************************************************************************)
(* Actions                                                                 *)
(***************************************************************************)
Idle == call.op = "none"

Finish(c, res) ==
    /\ Len(res.table) <= MaxRows
    /\ table' = res.table
    /\ call' = [c EXCEPT !.pre = table, !.err = res.err, !.ret = res.ret,
                         !.tx = res.tx]
    /\ UNCHANGED concVars

AddPolicy ==
    /\ Idle
    /\ \E ptype \in Ptypes : \E rule \in RulesOf(ptype), fault \in 0..1 :
          Finish([NoCall EXCEPT !.op = "AddPolicy", !.ptype = ptype,
                                !.rules = <<rule>>, !.fault = fault],
                 AddPolicyCtx(table, ptype, rule, fault))
    /\ UNCHANGED isFiltered

AddPolicies ==
    /\ Idle
    /\ \E ptype \in Ptypes : \E rules \in BatchesOf(ptype), fault \in 0..1 :
          Finish([NoCall EXCEPT !.op = "AddPolicies", !.ptype = ptype,
                                !.rules = rules, !.fault = fault],
                 AddPoliciesCtx(table, ptype, rules, fault))
    /\ UNCHANGED isFiltered

RemovePolicy ==
    /\ Idle
    /\ \E ptype \in Ptypes : \E rule \in RemoveRulesOf(ptype), fault \in 0..1 :
          Finish([NoCall EXCEPT !.op = "RemovePolicy", !.ptype = ptype,
                                !.rules = <<rule>>, !.fault = fault],
                 RemovePolicyCtx(table, ptype, rule, fault))
    /\ UNCHANGED isFiltered

RemovePolicies ==
    /\ Idle
    /\ \E ptype \in Ptypes : \E rules \in BatchesOf(ptype) :
       \E fault \in 0..(Len(rules) + 2) :
          Finish([NoCall EXCEPT !.op = "RemovePolicies", !.ptype = ptype,
                                !.rules = rules, !.fault = fault],
                 RemovePoliciesCtx(table, ptype, rules, fault))
    /\ UNCHANGED isFiltered

RemoveFilteredPolicy ==
    /\ Idle
    /\ \E ptype \in Ptypes, ff \in FieldFilters, fault \in 0..1 :
          Finish([NoCall EXCEPT !.op = "RemoveFilteredPolicy", !.ptype = ptype,
                                !.fieldIndex = ff[1], !.fieldValues = ff[2],
                                !.fault = fault],
                 RemoveFilteredPolicyCtx(table, ptype, ff[1], ff[2], fault))
    /\ UNCHANGED isFiltered

UpdatePolicy ==
    /\ Idle
    /\ \E ptype \in Ptypes : \E oldRule \in RulesOf(ptype), newRule \in RulesOf(ptype), fault \in 0..1 :
          Finish([NoCall EXCEPT !.op = "UpdatePolicy", !.ptype = ptype,
                                !.rules = <<oldRule>>, !.newRules = <<newRule>>,
                                !.fault = fault],
                 UpdatePolicyCtx(table, ptype, oldRule, newRule, fault))
    /\ UNCHANGED isFiltered

UpdatePolicies ==
    /\ Idle
    /\ \E ptype \in Ptypes : \E oldRules \in OldBatchesOf(ptype), newRules \in NewBatchesOf(ptype) :
       \E fault \in 0..(Len(oldRules) + 2) :
          Finish([NoCall EXCEPT !.op = "UpdatePolicies", !.ptype = ptype,
                                !.rules = oldRules, !.newRules = newRules,
                                !.fault = fault],
                 UpdatePoliciesCtx(table, ptype, oldRules, newRules, fault))
    /\ UNCHANGED isFiltered

\* the orders the backend may return the selected rows in (the rows are
\* returned to the caller only when none of calls 1..4 and 6 fails)
ScanOrders(tbl, fault) ==
    IF fault \in {0, 5} THEN Permutations(1..Len(tbl))
    ELSE {[i \in 1..Len(tbl) |-> i]}

UpdateFilteredPolicies ==
    /\ Idle
    /\ \E ptype \in Ptypes, ff \in FieldFilters, fault \in 0..6 :
       \E newRules \in NewBatchesOf(ptype), order \in ScanOrders(table, fault) :
          Finish([NoCall EXCEPT !.op = "UpdateFilteredPolicies", !.ptype = ptype,
                                !.newRules = newRules, !.fieldIndex = ff[1],
                                !.fieldValues = ff[2], !.fault = fault],
                 UpdateFilteredPoliciesCtx(table, ptype, newRules, ff[1], ff[2],
                                           fault, order))
    /\ UNCHANGED isFiltered

\* rules is model["p"]["p"].Policy, newRules is model["g"]["g"].Policy
SavePolicy ==
    /\ Idle
    /\ \E pRules \in NewBatchesOf("p"), gRules \in NewBatchesOf("g"), fault \in 0..4 :
          /\ Finish([NoCall EXCEPT !.op = "SavePolicy", !.rules = pRules,
                                   !.newRules = gRules, !.fault = fault],
                    SavePolicyCtx(table, pRules, gRules, fault))
    /\ UNCHANGED isFiltered

LoadFinish(c, res) ==
    /\ isFiltered' = res.flag
    /\ call' = [c EXCEPT !.pre = table, !.err = res.err, !.ret = res.ret,
                         !.wasFiltered = isFiltered]
    /\ UNCHANGED <<table, concVars>>

LoadPolicy ==
    /\ Idle
    /\ \E fault \in 0..2 :
          LoadFinish([NoCall EXCEPT !.op = "LoadPolicy", !.fault = fault],
                     LoadPolicyCtx(table, isFiltered, fault))

LoadFilteredPolicy ==
    /\ Idle
    /\ \E filterKind \in FilterKinds, fault \in 0..2 :
       \E f \in (IF filterKind = "Filter" THEN Filters ELSE {NoFilter}) :
          LoadFinish([NoCall EXCEPT !.op = "LoadFilteredPolicy",
                                    !.filterKind = filterKind, !.filter = f,
                                    !.fault = fault],
                     LoadFilteredPolicyCtx(table, isFiltered, filterKind, f, fault))

IsFiltered ==
    /\ Idle
    /\ call' = [NoCall EXCEPT !.op = "IsFiltered", !.pre = table,
                              !.flag = IsFilteredCtx(isFiltered)]
    /\ UNCHANGED <<table, isFiltered, concVars>>

\* the caller takes the result; the next operation may start
Return ==
    /\ ~Idle
    /\ call' = NoCall
    /\ UNCHANGED <<table, isFiltered, concVars>>

\* sync.RWMutex, zero value: no writer (0), no readers
MuFree == [writer |-> 0, readers |-> {}]

Init ==
    /\ table = <<>>
    /\ isFiltered = FALSE
    /\ call = NoCall
    /\ mu = MuFree
    /\ pc = [p \in Callers |-> "idle"]
    /\ local = [p \in Callers |-> FALSE]

Next ==
    \/ AddPolicy
    \/ AddPolicies
    \/ RemovePolicy
    \/ RemovePolicies
    \/ RemoveFilteredPolicy
    \/ UpdatePolicy
    \/ UpdatePolicies
    \/ UpdateFilteredPolicies
    \/ SavePolicy
    \/ LoadPolicy
    \/ LoadFilteredPolicy
    \/ IsFiltered
    \/ Return

Spec == Init /\ [][Next]_vars

(***************************************************************************)
(* Concurrent callers of LoadPolicy, LoadFilteredPolicy and IsFiltered     *)
(***************************************************************************)
Goto(p, stmt) == pc' = [pc EXCEPT ![p] = stmt]

\* LoadFilteredPolicyCtx called with a nil filter (the flag will be reset) or
\* with a Filter value (the flag will be set): next is a.mu.Lock()
BeginLoadFiltered(p) ==
    /\ pc[p] = "idle"
    /\ \E filterKind \in {"nil", "Filter"} :
          local' = [local EXCEPT ![p] = (filterKind = "Filter")]
    /\ Goto(p, "Lock")
    /\ UNCHANGED <<table, isFiltered, call, mu>>

\* as MuLock, but the lock is taken whoever holds it
MuLockNotExclusive(p) ==
    /\ pc[p] = "Lock"
    /\ mu' = [mu EXCEPT !.writer = p]
    /\ Goto(p, "write")
    /\ UNCHANGED <<table, isFiltered, call, local>>

\* a.mu.Lock(): granted when no caller holds the lock
MuLock(p) ==
    /\ pc[p] = "Lock"
    /\ mu.writer = 0
    /\ mu.readers = {}
    /\ mu' = [mu EXCEPT !.writer = p]
    /\ Goto(p, "write")
    /\ UNCHANGED <<table, isFiltered, call, local>>

\* a.isFiltered = false / a.isFiltered = true
FlagWrite(p) ==
    /\ pc[p] = "write"
    /\ isFiltered' = local[p]
    /\ Goto(p, "Unlock")
    /\ UNCHANGED <<table, call, mu, local>>

\* a.mu.Unlock(); the query and the scan follow
MuUnlock(p) ==
    /\ pc[p] = "Unlock"
    /\ mu' = [mu EXCEPT !.writer = 0]
    /\ Goto(p, "scan")
    /\ UNCHANGED <<table, isFiltered, call, local>>

\* LoadPolicyCtx called directly: the query and the scan, no lock
BeginLoadPolicy(p) ==
    /\ pc[p] = "idle"
    /\ Goto(p, "scan")
    /\ UNCHANGED <<table, isFiltered, call, mu, local>>

\* the query, the scan of its rows and the return of the load
LoadScan(p) ==
    /\ pc[p] = "scan"
    /\ Goto(p, "idle")
    /\ UNCHANGED <<table, isFiltered, call, mu, local>>

\* IsFilteredCtx called: next is a.mu.RLock()
BeginIsFiltered(p) ==
    /\ pc[p] = "idle"
    /\ Goto(p, "RLock")
    /\ UNCHANGED <<table, isFiltered, call, mu, local>>

\* a.mu.RLock(): granted when no caller holds the lock exclusively
MuRLock(p) ==
    /\ pc[p] = "RLock"
    /\ mu.writer = 0
    /\ mu' = [mu EXCEPT !.readers = @ \cup {p}]
    /\ Goto(p, "read")
    /\ UNCHANGED <<table, isFiltered, call, local>>

\* return a.isFiltered: the value is read
FlagRead(p) ==
    /\ pc[p] = "read"
    /\ local' = [local EXCEPT ![p] = isFiltered]
    /\ Goto(p, "RUnlock")
    /\ UNCHANGED <<table, isFiltered, call, mu>>

\* defer a.mu.RUnlock(), and the return of the value read
MuRUnlock(p) ==
    /\ pc[p] = "RUnlock"
    /\ mu' = [mu EXCEPT !.readers = @ \ {p}]
    /\ Goto(p, "idle")
    /\ UNCHANGED <<table, isFiltered, call, local>>

ConcNext ==
    \E p \in Callers :
        \/ BeginLoadFiltered(p)
        \/ MuLock(p)
        \/ FlagWrite(p)
        \/ MuUnlock(p)
        \/ BeginLoadPolicy(p)
        \/ LoadScan(p)
        \/ BeginIsFiltered(p)
        \/ MuRLock(p)
        \/ FlagRead(p)
        \/ MuRUnlock(p)

ConcSpec == Init /\ [][ConcNext]_vars

(***************************************************************************)
(* Properties                                                              *)
(***************************************************************************)
StoredRows == Range(table)

RowsBefore == Range(call.pre)

\* the rows the rules of a batch map to (empty and missing fields absent)
RowsOf(ptype, rules) == {ToRow(ptype, rules[i]) : i \in 1..Len(rules)}

\* some rule of the batch maps to a stored row or to the row of another rule
BatchHasDuplicate(tbl, ptype, rules) ==
    \/ \E i \in 1..Len(rules) : ToRow(ptype, rules[i]) \in Range(tbl)
    \/ \E i, j \in 1..Len(rules) :
          i # j /\ ToRow(ptype, rules[i]) = ToRow(ptype, rules[j])

\* C1: AddPolicies is atomic.  When a rule of a non-empty batch maps to a row
\* that is already stored, or to the row of another rule of the batch, the
\* call fails (with "one or more policies already exist" when the backend
\* ran the statement) and the stored rows are those before the call.
C1_AddPoliciesAtomic ==
    (/\ call.op = "AddPolicies"
     /\ call.rules # <<>>
     /\ BatchHasDuplicate(call.pre, call.ptype, call.rules))
    => /\ call.err # "nil"
       /\ call.fault = 0 => call.err = "one or more policies already exist"
       /\ StoredRows = RowsBefore
       /\ table = call.pre

\* a batch of two rules, one stored and one new, was refused as a whole
C1_Witness ==
    /\ call.op = "AddPolicies"
    /\ Len(call.rules) = 2
    /\ ToRow(call.ptype, call.rules[1]) \notin RowsBefore
    /\ ToRow(call.ptype, call.rules[2]) \in RowsBefore
    /\ call.err = "one or more policies already exist"

\* pair i of the batch update can match nothing when its statement runs: its
\* old rule is neither stored before the call nor the new rule of an earlier
\* pair
PairCannotMatch(i) ==
    /\ ToRow(call.ptype, call.rules[i]) \notin RowsBefore
    /\ \A j \in 1..(i - 1) :
          ToRow(call.ptype, call.newRules[j]) # ToRow(call.ptype, call.rules[i])

\* C2: UpdatePolicies is all-or-nothing.  With old and new rules of equal
\* length, a not-found error leaves the stored rows as before the call, and
\* a batch with a pair that can match nothing fails and applies no pair,
\* also not the pairs before it.
C2_UpdatePoliciesAllOrNothing ==
    (call.op = "UpdatePolicies" /\ Len(call.rules) = Len(call.newRules))
    => /\ call.err = "policy not found at index"
          => (table = call.pre /\ call.tx = "rolledback")
       /\ (\E i \in 1..Len(call.rules) : PairCannotMatch(i))
          => /\ call.err # "nil"
             /\ table = call.pre
             /\ call.fault = 0
                => call.err \in {"policy not found at index",
                                 "failed to update policy"}
       /\ (call.rules # <<>> /\ call.fault \notin {1, 2} /\ PairCannotMatch(1))
          => call.err = "policy not found at index"

\* the first pair was applied inside the transaction, the second found
\* nothing, and the first pair's update is gone
C2_Witness ==
    /\ call.op = "UpdatePolicies"
    /\ Len(call.rules) = 2
    /\ Len(call.newRules) = 2
    /\ ToRow(call.ptype, call.rules[1]) \in RowsBefore
    /\ ToRow(call.ptype, call.newRules[1]) \notin RowsBefore
    /\ call.err = "policy not found at index"
    /\ table = call.pre

MultiRowMutations ==
    {"RemovePolicies", "UpdatePolicies", "UpdateFilteredPolicies", "SavePolicy"}

\* C3: a multi-row mutation (RemovePolicies, UpdatePolicies,
\* UpdateFilteredPolicies, SavePolicy) that returns an error, whichever step
\* failed, leaves the table exactly as it was before the call.
C3_FailedMutationRestoresTable ==
    (call.op \in MultiRowMutations /\ call.err # "nil")
    => /\ table = call.pre
       /\ call.tx # "committed"

\* the filtered update deleted a stored row, then its insert failed
C3_Witness ==
    /\ call.op = "UpdateFilteredPolicies"
    /\ call.err = "failed to insert new policies"
    /\ \E i \in 1..Len(call.pre) :
          UpdateFilteredWhere(call.pre[i], call.ptype, call.fieldIndex,
                              call.fieldValues)
    /\ table = call.pre

\* the field-indexed predicate: the given ptype, and column fieldIndex+k-1
\* equal to the k-th value, for every value whose column is at most v5
FieldIndexed(row, ptype, fieldIndex, fieldValues) ==
    /\ row.ptype = ptype
    /\ \A k \in 1..Len(fieldValues) :
          fieldIndex + k <= NumCols
             => row[<<"v0", "v1", "v2", "v3", "v4", "v5">>[fieldIndex + k]]
                   = fieldValues[k]

\* the rows of the table before the call that the call's field-indexed
\* predicate selects
FilteredBefore ==
    {r \in RowsBefore :
        FieldIndexed(r, call.ptype, call.fieldIndex, call.fieldValues)}

\* C4: a successful UpdateFilteredPolicies with a valid fieldIndex returns
\* the rows that matched the field-indexed predicate at call time, one rule
\* (the row's present values) per row, deletes exactly those rows, and leaves
\* (rows before - deleted rows) + rows of newRules stored.
C4_UpdateFilteredReplaces ==
    (/\ call.op = "UpdateFilteredPolicies"
     /\ call.fieldIndex \in 0..5
     /\ call.err = "nil")
    => /\ Len(call.ret) = Cardinality(FilteredBefore)
       /\ Range(call.ret) = {Policy(r) : r \in FilteredBefore}
       /\ StoredRows = (RowsBefore \ FilteredBefore)
                          \cup RowsOf(call.ptype, call.newRules)
       /\ call.tx = "committed"

\* a filtered update replaced a stored row by a new one and kept another row
C4_Witness ==
    /\ call.op = "UpdateFilteredPolicies"
    /\ call.err = "nil"
    /\ call.fieldValues # <<>>
    /\ Len(call.ret) = 1
    /\ Len(call.newRules) = 1
    /\ RowsBefore \ FilteredBefore # {}
    /\ RowsOf(call.ptype, call.newRules) \cap RowsBefore = {}
    /\ Len(table) = Len(call.pre)

\* the rows of the saved model (rules is its "p" section, newRules its "g")
ModelRows == RowsOf("p", call.rules) \cup RowsOf("g", call.newRules)

\* C5: SavePolicy is an atomic full replace.  On success the stored rows are
\* exactly the rows of the model's "p" and "g" rules; on any failure the
\* clear is rolled back and the table is as before the call.
C5_SavePolicyReplaces ==
    call.op = "SavePolicy"
    => /\ call.err = "nil" => (StoredRows = ModelRows /\ call.tx = "committed")
       /\ call.err # "nil" => table = call.pre

\* a save over a table holding a row the model lacks failed at its insert
C5_Witness ==
    /\ call.op = "SavePolicy"
    /\ call.err = "failed to insert policies"
    /\ RowsBefore \ ModelRows # {}
    /\ table = call.pre

\* a save replaced a stored row the model lacks
C5_WitnessSuccess ==
    /\ call.op = "SavePolicy"
    /\ call.err = "nil"
    /\ RowsBefore \ ModelRows # {}
    /\ ModelRows # {}

\* C6: RemovePolicies has partial-success semantics.  When the backend runs
\* every statement and at least one rule of a non-empty batch maps to a
\* stored row, the call succeeds and commits, every stored row some rule maps
\* to is removed, and all other rows stay, in their order.
C6_RemovePoliciesPartialSuccess ==
    (/\ call.op = "RemovePolicies"
     /\ call.fault = 0
     /\ RowsOf(call.ptype, call.rules) \cap RowsBefore # {})
    => /\ call.err = "nil"
       /\ call.tx = "committed"
       /\ table = SelectSeq(call.pre,
                            LAMBDA r : r \notin RowsOf(call.ptype, call.rules))

\* of two rules one was stored; it was removed and another row stayed
C6_Witness ==
    /\ call.op = "RemovePolicies"
    /\ call.err = "nil"
    /\ Len(call.rules) = 2
    /\ ToRow(call.ptype, call.rules[1]) \notin RowsBefore
    /\ ToRow(call.ptype, call.rules[2]) \in RowsBefore
    /\ Len(table) = Len(call.pre) - 1
    /\ table # <<>>

\* C7: RemovePolicies with a non-empty batch of which no rule maps to a
\* stored row fails, never commits and leaves the table unchanged; when Begin
\* and the deletes ran, the error is "no policies found" and the transaction
\* is rolled back.
C7_RemovePoliciesNoneFound ==
    (/\ call.op = "RemovePolicies"
     /\ call.rules # <<>>
     /\ RowsOf(call.ptype, call.rules) \cap RowsBefore = {})
    => /\ call.err # "nil"
       /\ call.tx # "committed"
       /\ table = call.pre
       /\ call.fault \notin 1..(Len(call.rules) + 1)
          => (call.err = "no policies found" /\ call.tx = "rolledback")

\* two rules, neither stored, against a table that holds rows
C7_Witness ==
    /\ call.op = "RemovePolicies"
    /\ Len(call.rules) = 2
    /\ call.pre # <<>>
    /\ call.err = "no policies found"
    /\ call.tx = "rolledback"

\* C8: after a load (LoadPolicy, LoadFilteredPolicy with a nil filter,
\* LoadFilteredPolicy with a Filter value) IsFiltered() is true exactly when
\* that load, the most recent one, used a non-nil filter.
C8_IsFilteredTracksLastLoad ==
    /\ call.op = "LoadPolicy" => IsFilteredCtx(isFiltered) = FALSE
    /\ (call.op = "LoadFilteredPolicy" /\ call.filterKind \in {"nil", "Filter"})
       => (IsFilteredCtx(isFiltered) <=> call.filterKind = "Filter")

\* the constraint of filter f on a column
Constraint(f, col) ==
    CASE col = "ptype" -> f.Ptype
      [] col = "v0" -> f.V0
      [] col = "v1" -> f.V1
      [] col = "v2" -> f.V2
      [] col = "v3" -> f.V3
      [] col = "v4" -> f.V4
      [] col = "v5" -> f.V5

\* every non-empty constraint holds: the row's value in the column is present
\* and is one of the candidates
Satisfies(row, f) ==
    \A col \in Columns :
       Constraint(f, col) # <<>>
          => (row[col] # Nil /\ row[col] \in Range(Constraint(f, col)))

\* C9: a successful LoadFilteredPolicy with a Filter feeds the model exactly
\* the stored rows that satisfy every non-empty constraint (one of the
\* candidates within a column, all constrained columns together), each as
\* its policy line, in id order.
C9_FilteredLoadSelects ==
    (/\ call.op = "LoadFilteredPolicy"
     /\ call.filterKind = "Filter"
     /\ call.err = "nil")
    => call.ret = PolicyLines(SelectSeq(call.pre, LAMBDA r : Satisfies(r, call.filter)))

\* two candidates in one column and a second constrained column: two rows
\* loaded, a third row left out
C9_Witness ==
    /\ call.op = "LoadFilteredPolicy"
    /\ call.filterKind = "Filter"
    /\ call.err = "nil"
    /\ Len(call.filter.V0) = 2
    /\ call.filter.V1 # <<>>
    /\ Len(call.ret) = 2
    /\ Len(call.pre) = 3
    /\ call.ret[1] # call.ret[2]

\* C10: no two stored rows have the same (ptype, v0..v5), absent equal to
\* absent, in every state any sequence of operations reaches.
C10_RowsUnique ==
    \A i, j \in 1..Len(table) : i # j => table[i] # table[j]

\* an update that would have made a stored row equal to another was refused
C10_Witness ==
    /\ call.op = "UpdatePolicy"
    /\ call.fault = 0
    /\ call.err = "failed to update policy"
    /\ Len(table) >= 2

\* the rule the model holds under `key` for one loaded line reproduces `rule`
\* up to the collapse of empty fields into absent fields: both map to the
\* same row
Reproduces(line, ptype, rule) ==
    /\ line[1] = ptype
    /\ ToRow(ptype, Tail(line)) = ToRow(ptype, rule)

\* C11: round trip.  After a successful AddPolicy(ptype, rule), a LoadPolicy
\* of the table delivers a line under ptype whose rule reproduces the added
\* rule up to the collapse of empty fields into absent fields, also when the
\* empty field is not the last one.
C11_RoundTrip ==
    (/\ call.op = "AddPolicy"
     /\ call.err = "nil")
    => LET loaded == LoadPolicyCtx(table, isFiltered, 0)
       IN /\ loaded.err = "nil"
          /\ \E i \in 1..Len(loaded.ret) :
                Reproduces(loaded.ret[i], call.ptype, call.rules[1])

\* C12: AddPolicy of a rule whose row (empty and missing fields absent) is
\* already stored fails with "policy already exists" and changes nothing;
\* otherwise (the backend not failing) it succeeds and exactly that one row is
\* added to the stored rows.
C12_AddPolicyOneRow ==
    (/\ call.op = "AddPolicy"
     /\ call.fault = 0)
    => LET row == ToRow(call.ptype, call.rules[1])
       IN IF row \in RowsBefore
          THEN /\ call.err = "policy already exists"
               /\ table = call.pre
          ELSE /\ call.err = "nil"
               /\ table = Append(call.pre, row)
               /\ StoredRows = RowsBefore \cup {row}
               /\ Cardinality(StoredRows) = Cardinality(RowsBefore) + 1

\* a rule with a trailing empty field was refused because the row of the rule
\* without that field is stored
C12_Witness ==
    /\ call.op = "AddPolicy"
    /\ call.rules = <<R3>>
    /\ ToRow("p", R1) \in RowsBefore
    /\ call.err = "policy already exists"
    /\ table = call.pre

\* the positional, exhaustive match of a row with the rule of the call: the
\* same ptype and each of v0..v5 equal to the rule's field, or absent where
\* the field is missing or empty
ExactlyTheRule(r) ==
    /\ r.ptype = call.ptype
    /\ \A i \in 1..6 :
          r[<<"v0", "v1", "v2", "v3", "v4", "v5">>[i]]
             = (IF i <= Len(call.rules[1]) /\ call.rules[1][i] # ""
                THEN call.rules[1][i] ELSE Nil)

\* C13: RemovePolicy removes only rows that match the rule positionally and
\* exhaustively (so not a row of which the rule is a strict prefix), rows
\* that do not match are never changed, and when no row matches the call
\* fails with "policy not found" and the table is unchanged.
C13_RemovePolicyExact ==
    call.op = "RemovePolicy"
    => /\ \A r \in RowsBefore \ StoredRows : ExactlyTheRule(r)
       /\ SelectSeq(table, LAMBDA r : ~ExactlyTheRule(r))
             = SelectSeq(call.pre, LAMBDA r : ~ExactlyTheRule(r))
       /\ (call.fault = 0 /\ ~\E r \in RowsBefore : ExactlyTheRule(r))
             => (call.err = "policy not found" /\ table = call.pre)
       /\ (call.fault = 0 /\ \E r \in RowsBefore : ExactlyTheRule(r))
             => (/\ call.err = "nil"
                 /\ table = SelectSeq(call.pre, LAMBDA r : ~ExactlyTheRule(r)))

\* the rule is a strict prefix of a stored rule: nothing was removed
C13_Witness ==
    /\ call.op = "RemovePolicy"
    /\ call.rules = <<R0>>
    /\ call.fault = 0
    /\ ToRow("p", R1) \in RowsBefore
    /\ call.err = "policy not found"
    /\ table = call.pre

FieldIndexedNonEmpty(row, ptype, fieldIndex, fieldValues) ==
    /\ row.ptype = ptype
    /\ \A k \in 1..Len(fieldValues) :
          (fieldIndex + k <= 6 /\ fieldValues[k] # "")
             => row[<<"v0", "v1", "v2", "v3", "v4", "v5">>[fieldIndex + k]]
                   = fieldValues[k]

FilteredNonEmptyBefore ==
    {r \in RowsBefore :
        FieldIndexedNonEmpty(r, call.ptype, call.fieldIndex, call.fieldValues)}

C15_InvalidFieldIndex ==
    (/\ call.op \in {"RemoveFilteredPolicy", "UpdateFilteredPolicies"}
     /\ call.fieldIndex \notin 0..5)
    => /\ call.err = "invalid field index"
       /\ call.tx = "none"
       /\ call.ret = <<>>
       /\ table = call.pre

\* an UpdateFilteredPolicies with index 6, new rules and a stored row of the
\* ptype was refused, although its Begin would have failed
C15_Witness ==
    /\ call.op = "UpdateFilteredPolicies"
    /\ call.fieldIndex = 6
    /\ call.newRules # <<>>
    /\ call.fault = 1
    /\ \E r \in RowsBefore : r.ptype = call.ptype
    /\ call.err = "invalid field index"
    /\ table = call.pre

\* the table before the call with the row of oldRule, where it stands,
\* holding the fields of newRule
OldRowReplaced ==
    [i \in 1..Len(call.pre) |->
        IF call.pre[i] = ToRow(call.ptype, call.rules[1])
        THEN ToRow(call.pre[i].ptype, call.newRules[1])
        ELSE call.pre[i]]

\* C16 as stated: UpdatePolicy succeeds whenever a stored row exactly matches
\* oldRule, and then that row holds newRule's fields at the same position with
\* the same ptype and no other row has changed; when no row matches it fails
\* with "policy not found" and the table is unchanged.
C16_UpdatePolicyInPlace ==
    (/\ call.op = "UpdatePolicy"
     /\ call.fault = 0)
    => IF ToRow(call.ptype, call.rules[1]) \in RowsBefore
       THEN call.err = "nil" /\ table = OldRowReplaced
       ELSE call.err = "policy not found" /\ table = call.pre

\* newRule maps to a stored row other than the row of oldRule
UpdateWouldDuplicate ==
    /\ ToRow(call.ptype, call.newRules[1]) # ToRow(call.ptype, call.rules[1])
    /\ ToRow(call.ptype, call.newRules[1]) \in RowsBefore

\* C16, amended: when a stored row exactly matches oldRule and newRule does
\* not map to another stored row, UpdatePolicy succeeds and that row holds
\* newRule's fields at the same position with the same ptype, every other row
\* unchanged; when newRule maps to another stored row the call fails and the
\* table is unchanged; when no row matches oldRule it fails with "policy not
\* found" and the table is unchanged.
C16_UpdatePolicyInPlaceUnlessDuplicate ==
    (/\ call.op = "UpdatePolicy"
     /\ call.fault = 0)
    => IF ToRow(call.ptype, call.rules[1]) \notin RowsBefore
       THEN call.err = "policy not found" /\ table = call.pre
       ELSE IF UpdateWouldDuplicate
            THEN call.err = "failed to update policy" /\ table = call.pre
       ELSE call.err = "nil" /\ table = OldRowReplaced

\* the first of several rows was updated to a new row and is still first
C16_Witness ==
    /\ call.op = "UpdatePolicy"
    /\ call.err = "nil"
    /\ Len(call.pre) >= 2
    /\ call.pre[1] = ToRow(call.ptype, call.rules[1])
    /\ table[1] = ToRow(call.ptype, call.newRules[1])
    /\ table[1] # call.pre[1]
    /\ Tail(table) = Tail(call.pre)

\* C17 as stated: UpdateFilteredPolicies whose filter matches no stored row
\* is not an error: it returns no rule, deletes nothing, inserts all of
\* newRules and commits.
C17_NoMatchStillInserts ==
    (/\ call.op = "UpdateFilteredPolicies"
     /\ call.fieldIndex \in 0..5
     /\ call.fault = 0
     /\ FilteredBefore = {})
    => /\ call.err = "nil"
       /\ call.ret = <<>>
       /\ call.tx = "committed"
       /\ table = call.pre \o ToRows(call.ptype, call.newRules)

\* C17, amended: UpdateFilteredPolicies whose filter matches no stored row is
\* not an error for that reason: when no rule of newRules maps to a stored
\* row or to the row of another rule of newRules, it returns no rule, deletes
\* nothing, inserts all of newRules and commits; otherwise the insert fails,
\* the transaction is rolled back and the table is unchanged.
C17_NoMatchInsertsUnlessDuplicate ==
    (/\ call.op = "UpdateFilteredPolicies"
     /\ call.fieldIndex \in 0..5
     /\ call.fault = 0
     /\ FilteredBefore = {})
    => IF BatchHasDuplicate(call.pre, call.ptype, call.newRules)
       THEN /\ call.err = "failed to insert new policies"
            /\ call.tx = "rolledback"
            /\ table = call.pre
       ELSE /\ call.err = "nil"
            /\ call.ret = <<>>
            /\ call.tx = "committed"
            /\ table = call.pre \o ToRows(call.ptype, call.newRules)

\* no stored row matched, the new rule was inserted after the stored rows
C17_Witness ==
    /\ call.op = "UpdateFilteredPolicies"
    /\ call.fieldIndex \in 0..5
    /\ FilteredBefore = {}
    /\ \E r \in RowsBefore : r.ptype = call.ptype
    /\ call.newRules # <<>>
    /\ call.err = "nil"
    /\ call.ret = <<>>
    /\ call.tx = "committed"
    /\ table = call.pre \o ToRows(call.ptype, call.newRules)

\* C18: UpdatePolicies with oldRules and newRules of different lengths returns
\* the invalid-argument error before any backend call (so whatever backend
\* call would fail), begins no transaction and leaves the table unchanged,
\* also when some of the old rules are stored.
C18_UpdatePoliciesLengthMismatch ==
    (/\ call.op = "UpdatePolicies"
     /\ Len(call.rules) # Len(call.newRules))
    => /\ call.err = "old rules and new rules must have the same length"
       /\ call.tx = "none"
       /\ table = call.pre

\* two old rules, the first one stored, and one new rule
C18_Witness ==
    /\ call.op = "UpdatePolicies"
    /\ Len(call.rules) = 2
    /\ Len(call.newRules) = 1
    /\ ToRow(call.ptype, call.rules[1]) \in RowsBefore
    /\ call.fault = 0
    /\ call.err = "old rules and new rules must have the same length"
    /\ table = call.pre

\* C19: AddPolicies, RemovePolicies and UpdatePolicies with empty rule lists
\* return no error (RemovePolicies no not-found error either), make no
\* backend call (so whatever backend call would fail), begin no transaction
\* and leave the table unchanged.
C19_EmptyBatchNoOp ==
    (/\ call.op \in {"AddPolicies", "RemovePolicies", "UpdatePolicies"}
     /\ call.rules = <<>>
     /\ call.newRules = <<>>)
    => /\ call.err = "nil"
       /\ call.tx = "none"
       /\ table = call.pre

\* RemovePolicies with an empty list on a table with rows returned no error,
\* although its Begin would have failed
C19_Witness ==
    /\ call.op = "RemovePolicies"
    /\ call.rules = <<>>
    /\ call.fault = 1
    /\ call.pre # <<>>
    /\ call.err = "nil"
    /\ table = call.pre

\* C20: LoadFilteredPolicy with a non-nil filter that is not a Filter returns
\* the invalid-argument error, runs no query (so whatever backend call would
\* fail), feeds no rule to the model and leaves isFiltered as it was before
\* the call.
C20_InvalidFilterType ==
    (/\ call.op = "LoadFilteredPolicy"
     /\ call.filterKind = "other")
    => /\ call.err = "invalid filter type"
       /\ call.ret = <<>>
       /\ isFiltered = call.wasFiltered
       /\ table = call.pre

\* refused on a table with rows, with the flag unset before and after
C20_Witness ==
    /\ call.op = "LoadFilteredPolicy"
    /\ call.filterKind = "other"
    /\ table # <<>>
    /\ call.wasFiltered = FALSE
    /\ isFiltered = FALSE
    /\ call.err = "invalid filter type"

\* C21: with several callers running loads and IsFiltered at the same time,
\* a caller at the write of the flag holds the lock exclusively, a caller at
\* the read of the flag holds it shared, no caller is at the read or at the
\* write while another is at the write, and the exclusive lock is held only
\* between Lock and Unlock: a caller at its query and scan does not hold it,
\* so a waiting RLock never waits for a scan.
C21_FlagUnderLock ==
    /\ \A p \in Callers :
          pc[p] = "write" => (mu.writer = p /\ mu.readers = {})
    /\ \A p \in Callers :
          pc[p] = "read" => (p \in mu.readers /\ mu.writer = 0)
    /\ \A p, q \in Callers :
          (p # q /\ pc[p] = "write") => pc[q] \notin {"read", "write"}
    /\ \A p \in Callers : pc[p] = "scan" => mu.writer # p
    /\ mu.writer # 0 => pc[mu.writer] \in {"write", "Unlock"}
    /\ (\E p \in Callers : pc[p] = "RLock" /\ ~ENABLED MuRLock(p))
          => \E q \in Callers : pc[q] \in {"write", "Unlock"}

\* one caller is in the scan of a filtered load, a second one reads the flag
\* under the shared lock, a third one waits for the exclusive lock
C21_Witness ==
    \E p, q, r \in Callers :
        /\ pc[p] = "scan"
        /\ isFiltered
        /\ pc[q] = "read"
        /\ q \in mu.readers
        /\ pc[r] = "Lock"

MultiRowOperations ==
    {"AddPolicies", "RemovePolicies", "UpdatePolicies", "UpdateFilteredPolicies"}

NoTransactionBegun ==
    \/ call.op = "AddPolicies"
    \/ call.op = "RemovePolicies" /\ (call.rules = <<>> \/ call.fault = 1)
    \/ /\ call.op = "UpdatePolicies"
       /\ \/ Len(call.rules) # Len(call.newRules)
          \/ call.rules = <<>>
          \/ call.fault = 1
    \/ /\ call.op = "UpdateFilteredPolicies"
       /\ (call.fieldIndex \notin 0..5 \/ call.fault = 1)

CancelledInTransaction ==
    /\ call.op \in MultiRowMutations
    /\ call.tx # "none"
    /\ call.fault >= 2
    /\ ~(call.op = "UpdateFilteredPolicies" /\ call.fault = 5 /\ call.newRules = <<>>)
    /\ ~(/\ call.op = "SavePolicy"
         /\ call.fault = 3
         /\ call.rules = <<>>
         /\ call.newRules = <<>>)

\* C23: when the caller's context is cancelled between the begin and the
\* commit of RemovePolicies, UpdatePolicies, UpdateFilteredPolicies or
\* SavePolicy (the next backend call of the transaction, a statement, the row
\* scan or the commit, fails with the context's error), the operation
\* returns an error, its transaction is rolled back and the table is the one
\* before the call.
C23_CancelRollsBack ==
    CancelledInTransaction
    => /\ call.err # "nil"
       /\ call.tx = "rolledback"
       /\ table = call.pre
       /\ call.ret = <<>>

\* the context was cancelled after the first pair of an UpdatePolicies had
\* changed a row: the change was undone
C23_Witness ==
    /\ call.op = "UpdatePolicies"
    /\ Len(call.rules) = 2
    /\ Len(call.newRules) = 2
    /\ call.fault = 3
    /\ ToRow(call.ptype, call.rules[1]) \in RowsBefore
    /\ ToRow(call.ptype, call.newRules[1]) \notin RowsBefore
    /\ call.err = "failed to update policy"
    /\ call.tx = "rolledback"
    /\ table = call.pre

\* the rows a call removes from the table it is given
Deleted(tbl, res) == Range(tbl) \ Range(res.table)

\* C24: for every table, ptype, fieldIndex in 0..5 and list of values (empty
\* strings included), UpdateFilteredPolicies deletes the rows that
\* RemoveFilteredPolicy would delete, namely the rows constrained by one
\* equality per supplied value.
C24_SameFieldIndexedPredicate ==
    (/\ call.op \in {"RemoveFilteredPolicy", "UpdateFilteredPolicies"}
     /\ call.fieldIndex \in 0..5)
    => LET removed == Deleted(call.pre,
                         RemoveFilteredPolicyCtx(call.pre, call.ptype,
                             call.fieldIndex, call.fieldValues, 0))
           updated == Deleted(call.pre,
                         UpdateFilteredPoliciesCtx(call.pre, call.ptype, <<>>,
                             call.fieldIndex, call.fieldValues, 0,
                             [i \in 1..Len(call.pre) |-> i]))
       IN /\ updated = removed
          /\ removed = FilteredBefore

\* the values of the call that fall on columns fieldIndex..v5
ClippedValues == SubSeq(call.fieldValues, 1, 6 - call.fieldIndex)

\* the rows before the call that the clipped values select: the call's ptype
\* and column fieldIndex+k-1 equal to the k-th clipped value (an empty value
\* constrains nothing in RemoveFilteredPolicy)
ClippedBefore ==
    {r \in RowsBefore :
        /\ r.ptype = call.ptype
        /\ \A k \in 1..Len(ClippedValues) :
              \/ call.op = "RemoveFilteredPolicy" /\ ClippedValues[k] = ""
              \/ r[<<"v0", "v1", "v2", "v3", "v4", "v5">>[call.fieldIndex + k]]
                    = ClippedValues[k]}

\* C25: when fieldIndex is in 0..5 and fieldIndex + number of values exceeds
\* 6, RemoveFilteredPolicy and UpdateFilteredPolicies constrain columns
\* fieldIndex..v5 with the first 6 - fieldIndex values only, drop the other
\* values, and report no error because of the overflow: the only errors (the
\* backend not failing) are not-found of the remove when the clipped values
\* select no row, and a duplicate among the inserted new rules.
C25_ValuesClippedAtV5 ==
    (/\ call.op \in {"RemoveFilteredPolicy", "UpdateFilteredPolicies"}
     /\ call.fieldIndex \in 0..5
     /\ call.fieldIndex + Len(call.fieldValues) > 6
     /\ call.fault = 0)
    => /\ call.op = "RemoveFilteredPolicy"
            => /\ table = SelectSeq(call.pre, LAMBDA r : r \notin ClippedBefore)
               /\ call.err = (IF ClippedBefore = {}
                               THEN "no matching policies found" ELSE "nil")
       /\ call.op = "UpdateFilteredPolicies"
            => /\ call.err \in {"nil", "failed to insert new policies"}
               /\ call.err = "nil"
                     => /\ Range(call.ret) = {Policy(r) : r \in ClippedBefore}
                        /\ StoredRows = (RowsBefore \ ClippedBefore)
                                           \cup RowsOf(call.ptype, call.newRules)
               /\ call.err # "nil" => table = call.pre

\* two values from column v5 on: the row with the first value in v5 was
\* replaced, the second value was dropped
C25_Witness ==
    /\ call.op = "UpdateFilteredPolicies"
    /\ call.fieldIndex = 5
    /\ call.fieldValues = <<"data1", "alice">>
    /\ call.err = "nil"
    /\ call.ret = <<G1>>
    /\ ToRow("g", G1) \in RowsBefore
    /\ ToRow("g", G1) \notin StoredRows

\* C26: in every reachable state no stored row holds the empty string in any
\* of v0..v5: an empty or missing rule field is stored as absent (NULL) by
\* every write operation.
C26_NoEmptyStringStored ==
    \A i \in 1..Len(table) :
       \A c \in {"v0", "v1", "v2", "v3", "v4", "v5"} : table[i][c] # ""

\* a row was updated to a rule with an empty field before its last field:
\* the column of the empty field is absent
C26_Witness ==
    /\ call.op = "UpdatePolicy"
    /\ call.newRules = <<R2>>
    /\ call.err = "nil"
    /\ \E i \in 1..Len(table) :
          /\ table[i] \notin RowsBefore
          /\ table[i].v0 = "alice"
          /\ table[i].v1 = Nil
          /\ table[i].v2 = "data1"

\* s is a subsequence of t
RECURSIVE IsSubsequence(_, _)
IsSubsequence(s, t) ==
    IF s = <<>> THEN TRUE
    ELSE IF t = <<>> THEN FALSE
    ELSE IF Head(s) = Head(t) THEN IsSubsequence(Tail(s), Tail(t))
    ELSE IsSubsequence(s, Tail(t))

\* the line of a row: its ptype, then its present values in column order
LineOf(r) ==
    LET cols == <<"v0", "v1", "v2", "v3", "v4", "v5">>
        present == SelectSeq(cols, LAMBDA c : r[c] # Nil)
    IN <<r.ptype>> \o [k \in 1..Len(present) |-> r[present[k]]]

\* C27: a successful LoadPolicy feeds the model one line per stored row, in
\* the order of the rows' ids; a successful LoadFilteredPolicy with a Filter
\* feeds the lines of the matching rows only, in that same relative order, so
\* what it delivers is a subsequence of what LoadPolicy delivers on the same
\* table.
C27_LoadOrder ==
    /\ (call.op = "LoadPolicy" /\ call.err = "nil")
          => call.ret = [i \in 1..Len(call.pre) |-> LineOf(call.pre[i])]
    /\ (call.op = "LoadFilteredPolicy" /\ call.filterKind = "Filter" /\ call.err = "nil")
          => LET matching == SelectSeq(call.pre, LAMBDA r : Satisfies(r, call.filter))
             IN /\ call.ret = [i \in 1..Len(matching) |-> LineOf(matching[i])]
                /\ IsSubsequence(call.ret, LoadPolicyCtx(call.pre, isFiltered, 0).ret)

\* a filtered load of three rows delivered the first and the third, in that
\* order
C27_Witness ==
    /\ call.op = "LoadFilteredPolicy"
    /\ call.filterKind = "Filter"
    /\ call.err = "nil"
    /\ Len(call.pre) = 3
    /\ call.ret = <<LineOf(call.pre[1]), LineOf(call.pre[3])>>
    /\ LineOf(call.pre[1]) # LineOf(call.pre[3])
    /\ LineOf(call.pre[2]) \notin Range(call.ret)

\* the table before the call with the row of the first old rule replaced,
\* where it stands, by the row of newRule
FirstOldRowReplacedBy(newRule) ==
    [i \in 1..Len(call.pre) |->
        IF call.pre[i] = ToRow(call.ptype, call.rules[1])
        THEN ToRow(call.ptype, newRule)
        ELSE call.pre[i]]

\* two pairs, the second old rule being absent before the call and produced
\* by the first pair, and no pair creating a duplicate
ChainedPairs ==
    /\ call.op = "UpdatePolicies"
    /\ Len(call.rules) = 2
    /\ Len(call.newRules) = 2
    /\ call.fault = 0
    /\ ToRow(call.ptype, call.rules[1]) \in RowsBefore
    /\ ToRow(call.ptype, call.rules[2]) \notin RowsBefore
    /\ ToRow(call.ptype, call.rules[2]) = ToRow(call.ptype, call.newRules[1])
    /\ ToRow(call.ptype, call.newRules[2])
          \notin (RowsBefore \ {ToRow(call.ptype, call.rules[1])})

\* C28: UpdatePolicies applies its pairs in index order in one transaction and
\* matches pair i against the rows as left by the pairs before it: a second
\* pair whose old rule is absent before the call but is the new rule of the
\* first pair is found, and the batch succeeds, leaving the row of the first
\* old rule, where it stands, with the fields of the second new rule.
C28_PairsSeeEarlierPairs ==
    ChainedPairs
    => /\ call.err = "nil"
       /\ call.tx = "committed"
       /\ table = FirstOldRowReplacedBy(call.newRules[2])

\* [R2 -> R3, R3 -> R4]: the row of R2 ends as the row of R4
C28_Witness ==
    /\ ChainedPairs
    /\ call.rules = <<R2, R3>>
    /\ call.newRules = <<R3, R4>>
    /\ call.err = "nil"
    /\ ToRow("p", R4) \in StoredRows
    /\ ToRow("p", R1) \notin StoredRows
    /\ ToRow("p", R2) \notin StoredRows

\* pair k of the call would create a duplicate in table tbl: its old rule
\* matches a row and its new rule maps to another row of tbl
PairDuplicates(tbl, k) ==
    /\ ToRow(call.ptype, call.rules[k]) \in Range(tbl)
    /\ ToRow(call.ptype, call.newRules[k]) \in Range(tbl)
    /\ ToRow(call.ptype, call.newRules[k]) # ToRow(call.ptype, call.rules[k])

\* the first pair changes a row without creating a duplicate, the second
\* pair would create one in the table the first pair leaves
SecondPairDuplicates ==
    /\ Len(call.rules) = 2
    /\ Len(call.newRules) = 2
    /\ ToRow(call.ptype, call.rules[1]) \in RowsBefore
    /\ ToRow(call.ptype, call.newRules[1]) \notin RowsBefore
    /\ PairDuplicates(FirstOldRowReplacedBy(call.newRules[1]), 2)

\* C29: an update that would create a duplicate fails and changes nothing.
\* UpdatePolicy whose oldRule matches a stored row and whose newRule maps to
\* another stored row returns an error and leaves the table unchanged;
\* UpdatePolicies with such a pair (first pair, or second pair after a first
\* pair that changed a row) returns an error and every pair is rolled back.
C29_UpdateDuplicateFails ==
    /\ (call.op = "UpdatePolicy" /\ PairDuplicates(call.pre, 1))
          => (call.err # "nil" /\ table = call.pre)
    /\ (/\ call.op = "UpdatePolicies"
        /\ Len(call.rules) = Len(call.newRules)
        /\ call.rules # <<>>
        /\ call.fault # 1
        /\ (PairDuplicates(call.pre, 1) \/ SecondPairDuplicates))
          => (call.err # "nil" /\ call.tx = "rolledback" /\ table = call.pre)

\* the second pair of a batch would have duplicated a stored row: the change
\* of the first pair was rolled back
C29_Witness ==
    /\ call.op = "UpdatePolicies"
    /\ call.fault = 0
    /\ SecondPairDuplicates
    /\ call.err = "failed to update policy"
    /\ call.tx = "rolledback"
    /\ table = call.pre

OperationsWithPtype ==
    {"AddPolicy", "AddPolicies", "RemovePolicy", "RemovePolicies",
     "RemoveFilteredPolicy", "UpdatePolicy", "UpdatePolicies",
     "UpdateFilteredPolicies"}

\* the rows of tbl whose ptype is not the call's, in order
OtherPtypes(tbl) == SelectSeq(tbl, LAMBDA r : r.ptype # call.ptype)

\* C30: an operation with a ptype argument leaves unchanged, and in place,
\* every stored row whose ptype differs from the argument, whatever its other
\* arguments; RemoveFilteredPolicy with a valid index and no values removes
\* all rows of the given ptype and only those (not-found when there is none).
C30_PtypeFrame ==
    /\ call.op \in OperationsWithPtype => OtherPtypes(table) = OtherPtypes(call.pre)
    /\ (/\ call.op = "RemoveFilteredPolicy"
        /\ call.fieldIndex \in 0..5
        /\ call.fieldValues = <<>>
        /\ call.fault = 0)
          => /\ table = OtherPtypes(call.pre)
             /\ call.err = (IF \E r \in RowsBefore : r.ptype = call.ptype
                             THEN "nil" ELSE "no matching policies found")

\* RemoveFilteredPolicy without values on a table with rows of both ptypes
\* removed the rows of its ptype and kept the others
C30_Witness ==
    /\ call.op = "RemoveFilteredPolicy"
    /\ call.fieldValues = <<>>
    /\ call.err = "nil"
    /\ \E r \in RowsBefore : r.ptype # call.ptype
    /\ Len(call.pre) - Len(table) >= 2
    /\ table = OtherPtypes(call.pre)

====
